---- MODULE Spec2Model ----
(***************************************************************************)
(* Model of the static-site generator (src/unnamed/part_000, lines 1-393,  *)
(* the variant with derived media; src/build.js is the same pipeline       *)
(* without the media step).                                                *)
(*                                                                         *)
(* Text is modelled as sequences: a file name is a sequence of one-letter  *)
(* strings, a tag is a sequence of UTF-16 code units, rendered content is  *)
(* a sequence of one-letter strings.  A path is a record of a directory, a *)
(* stem (sequence of pieces) and an extension, so that the regular         *)
(* expressions on the extension can be computed.                           *)
(***************************************************************************)
EXTENDS Integers, Sequences, FiniteSets, TLC

\* ---------------------------------------------------------------- bounds

\* largest number of files in the content directory (pipeline runs)
MaxFiles == 2
\* assembly runs: every directory of at most MaxSmall posts with dates up to
\* MaxDate, and directories of up to FeedLimit + FeedSlack posts
MaxSmall == 3
MaxDate == 2
FeedSlack == 2
\* number of generateSite runs in one session (watch mode reruns the build)
MaxBuilds == 2

\* ------------------------------------------------------- program constants

\* entries.slice(0, 20)
FeedLimit == 20
\* entry.content.substring(0, 200)
PreviewLen == 200

OUTPUT_DIR == "docs"
MdSuffix == <<".", "m", "d">>

\* A path-valued field is a record [kind, dir, stem, ext].  JavaScript's two
\* "no value" values are the kinds "undefined" (dropped by JSON.stringify)
\* and "null" (kept).
NoPath(kind) == [kind |-> kind, dir |-> "", stem |-> <<>>, ext |-> ""]
Undefined == NoPath("undefined")
Null == NoPath("null")
RelPath(stem, ext) == [kind |-> "path", dir |-> "", stem |-> stem, ext |-> ext]

\* A Date is [valid, time]; new Date(x) for a missing or unparseable x is
\* the Invalid Date, whose time value is NaN.
InvalidDate == [valid |-> FALSE, time |-> 0]

\* ------------------------------------------------------------ sequences

Range(s) == {s[k] : k \in DOMAIN s}

RECURSIVE SeqOfSet(_)
\* some listing of a finite set of integers, ascending
SeqOfSet(S) ==
  IF S = {} THEN <<>>
  ELSE LET m == CHOOSE x \in S : \A y \in S : x <= y
       IN <<m>> \o SeqOfSet(S \ {m})

\* String.prototype.endsWith
EndsWith(s, suf) ==
  /\ Len(suf) <= Len(s)
  /\ SubSeq(s, Len(s) - Len(suf) + 1, Len(s)) = suf

\* Array.prototype.filter
RECURSIVE FilterMd(_)
FilterMd(fs) ==
  IF fs = <<>> THEN <<>>
  ELSE IF EndsWith(Head(fs).filename, MdSuffix)
       THEN <<Head(fs)>> \o FilterMd(Tail(fs))
       ELSE FilterMd(Tail(fs))

\* (mutant: the suffix is not removed)
BasenameKeepsSuffix(file) == file

\* path.basename(file, '.md'): the name without a trailing '.md'
Basename(file) ==
  IF EndsWith(file, MdSuffix) THEN SubSeq(file, 1, Len(file) - Len(MdSuffix))
  ELSE file

\* --------------------------------------------------------------- paths

\* /\.(mp3|wav|ogg|m4a)$/i
AudioExts == {"mp3", "wav", "ogg", "m4a"}
LowerExt(e) ==
  CASE e = "MP3" -> "mp3"
    [] e = "WAV" -> "wav"
    [] OTHER -> e
IsAudioExt(e) == LowerExt(e) \in AudioExts

\* path.replace(/\.(mp3|wav|ogg|m4a)$/i, suffix + '.' + ext)
ReplaceAudioExt(p, suffix, ext) ==
  IF IsAudioExt(p.ext) THEN [p EXCEPT !.stem = @ \o suffix, !.ext = ext]
  ELSE p

\* outputImagePath.replace(/\.(jpg|png)$/, suffix + '.' + ext), case-sensitive
ReplaceImageExt(p, suffix, ext) ==
  IF p.ext \in {"jpg", "png"} THEN [p EXCEPT !.stem = @ \o suffix, !.ext = ext]
  ELSE p

\* path.join(OUTPUT_DIR, rel)
JoinOutput(rel) == [rel EXCEPT !.dir = OUTPUT_DIR]

VideoPathOf(audioPath) == ReplaceAudioExt(audioPath, <<>>, "mp4")
WaveformPathOf(audioPath) == ReplaceAudioExt(audioPath, <<"-waveform">>, "jpg")
TempAudioOf(imagePath) == ReplaceImageExt(imagePath, <<"-temp">>, "mp3")
TempWaveformOf(imagePath) == ReplaceImageExt(imagePath, <<"-waveform-temp">>, "png")

\* ---------------------------------------------------------------- text

Repeat(c, n) == [k \in 1..n |-> c]

\* Rendered content is kept as run lengths [pre, inner, post]: pre letters,
\* then (when inner >= 0) one tag "<" inner letters ">", then post letters.
ContentText(c) ==
  Repeat("a", c.pre)
    \o (IF c.inner >= 0 THEN <<"<">> \o Repeat("b", c.inner) \o <<">">> ELSE <<>>)
    \o Repeat("c", c.post)

\* String.prototype.substring(0, n)
Substring(s, n) == SubSeq(s, 1, IF Len(s) < n THEN Len(s) ELSE n)

\* position k of s lies in a match of /<[^>]*>/g: a "<" at or before k with
\* no ">" between it and k, and a ">" at or after k (matches are found left
\* to right and each ends at the first ">" after its "<")
InTag(s, k) ==
  /\ \E p \in 1..k : s[p] = "<" /\ \A j \in p..(k - 1) : s[j] # ">"
  /\ \E q \in k..Len(s) : s[q] = ">"

\* s.replace(/<[^>]*>/g, ''): every match is removed; a "<" with no ">"
\* after it stays
StripTags(s) ==
  LET at == [k \in DOMAIN s |-> <<k, s[k]>>]
      kept == SelectSeq(at, LAMBDA x : ~InTag(s, x[1]))
  IN [k \in DOMAIN kept |-> kept[k][2]]

Ellipsis == <<".", ".", ".">>

\* !x for a string x (a missing string is written "" here) and for a
\* path-valued field
FalsyStr(x) == x = <<>>
Falsy(p) == p.kind # "path"

\* ---------------------------------------------------------------- tags

\* tags are sequences of UTF-16 code units
Music == <<109, 117, 115, 105, 99>>
Art == <<97, 114, 116>>
Ar == <<97, 114>>
Zen == <<90, 101, 110>>

RECURSIVE StrLess(_, _)
\* x < y for strings: the order Array.prototype.sort() uses by default
StrLess(x, y) ==
  IF y = <<>> THEN FALSE
  ELSE IF x = <<>> THEN TRUE
  ELSE IF Head(x) # Head(y) THEN Head(x) < Head(y)
  ELSE StrLess(Tail(x), Tail(y))

\* Array.prototype.includes
Includes(list, x) == \E k \in DOMAIN list : list[k] = x

RECURSIVE FlatMapTags(_)
\* entries.flatMap(entry => entry.tags)
FlatMapTags(es) ==
  IF es = <<>> THEN <<>> ELSE Head(es).tags \o FlatMapTags(Tail(es))

RECURSIVE Dedup(_)
\* [...new Set(list)]: first occurrences, in insertion order
Dedup(list) ==
  IF list = <<>> THEN <<>>
  ELSE LET init == Dedup(SubSeq(list, 1, Len(list) - 1))
           last == list[Len(list)]
       IN IF Includes(init, last) THEN init ELSE Append(init, last)

\* insert x into the sorted list s after every element not greater than it
RECURSIVE InsertTag(_, _)
InsertTag(s, x) ==
  IF s = <<>> THEN <<x>>
  ELSE IF StrLess(x, Head(s)) THEN <<x>> \o s
  ELSE <<Head(s)>> \o InsertTag(Tail(s), x)

\* (mutant: the tags are not sorted)
SortTagsOmitted(list) == list

RECURSIVE SortTags(_)
\* list.sort() with the default comparator
SortTags(list) ==
  IF list = <<>> THEN <<>>
  ELSE InsertTag(SortTags(SubSeq(list, 1, Len(list) - 1)), list[Len(list)])

\* [...new Set(entries.flatMap(entry => entry.tags))].sort()
AllTags(es) == SortTags(Dedup(FlatMapTags(es)))

\* ------------------------------------------------------------ date sort

ValidDate(d) == d.valid

\* (mutant: a missing date becomes the epoch, as new Date(null) would)
ParseDateDefaultsToEpoch(raw) == [valid |-> TRUE, time |-> raw.time]

\* new Date(attributes.date): raw is [given, time], given = FALSE for a
\* missing or unparseable date string
ParseDate(raw) == IF raw.given THEN [valid |-> TRUE, time |-> raw.time] ELSE InvalidDate

\* (mutant: a.date - b.date, ascending)
CompareDatesAscending(a, b) ==
  IF ValidDate(a.date) /\ ValidDate(b.date) THEN a.date.time - b.date.time ELSE 0

\* (a, b) => b.date - a.date; a NaN result counts as 0
CompareDates(a, b) ==
  IF ValidDate(a.date) /\ ValidDate(b.date) THEN b.date.time - a.date.time ELSE 0

RECURSIVE InsertEntry(_, _)
\* stable insertion: x goes after every element that does not compare after it
InsertEntry(s, x) ==
  IF s = <<>> THEN <<x>>
  ELSE IF CompareDates(Head(s), x) > 0 THEN <<x>> \o s
  ELSE <<Head(s)>> \o InsertEntry(Tail(s), x)

RECURSIVE SortEntries(_)
\* entries.sort((a, b) => b.date - a.date), a stable sort
SortEntries(es) ==
  IF es = <<>> THEN <<>>
  ELSE InsertEntry(SortEntries(SubSeq(es, 1, Len(es) - 1)), es[Len(es)])

\* ------------------------------------------------------------- entries

SITE_URL == "https://words.aubrey.page"
AUDIO_COVER_IMAGE == [kind |-> "path", dir |-> ".", stem |-> <<"audio-cover">>, ext |-> "jpg"]

\* the callback of markdownFiles.map: one Entry per source file
ParseEntry(file) ==
  [ slug |-> Basename(file.filename),
    filename |-> file.filename,
    date |-> ParseDate(file.date),
    tags |-> IF FalsyStr(file.tags) THEN <<>> ELSE file.tags,
    musicSource |-> IF Falsy(file.musicSource) THEN Null ELSE file.musicSource,
    coverImage |-> IF Falsy(file.coverImage) THEN Null ELSE file.coverImage,
    description |-> file.description,
    content |-> file.body,
    videoSource |-> Undefined,
    waveformImage |-> Undefined ]

\* files.filter(...).map(...): Promise.all keeps the order of markdownFiles
ParseAll(fs) == LET md == FilterMd(fs) IN [k \in DOMAIN md |-> ParseEntry(md[k])]

\* entry.musicSource && entry.tags.includes('music')
AudioEligible(e) == ~Falsy(e.musicSource) /\ Includes(e.tags, Music)

AudioPathOf(e) == JoinOutput(e.musicSource)
CoverOf(e) == IF Falsy(e.coverImage) THEN AUDIO_COVER_IMAGE ELSE JoinOutput(e.coverImage)

\* ------------------------------------------------------------- outputs

\* date.toISOString(): defined for valid dates only
ToISOString(d) == [iso |-> d.time]
\* date.toUTCString()
ToUTCString(d) == [utc |-> d.time]

\* one record of postsMetadata, as JSON.stringify writes it: a key whose
\* value is undefined is left out, a key whose value is null is kept
ManifestRecord(e) ==
  LET all == [ date |-> ToISOString(e.date),
               tags |-> e.tags,
               slug |-> e.slug,
               description |-> IF FalsyStr(e.description) THEN <<>> ELSE e.description,
               musicSource |-> e.musicSource,
               videoSource |-> e.videoSource,
               waveformImage |-> e.waveformImage ]
      keys == {"date", "tags", "slug", "description", "musicSource"}
                \cup (IF e.videoSource = Undefined THEN {} ELSE {"videoSource"})
                \cup (IF e.waveformImage = Undefined THEN {} ELSE {"waveformImage"})
  IN [k \in keys |-> all[k]]

PostsMetadata(es) == [k \in DOMAIN es |-> ManifestRecord(es[k])]

\* tagsHTML: the badges of an entry, "" for an entry with no tags
TagsHTML(e) ==
  IF Len(e.tags) > 0
  THEN [k \in DOMAIN e.tags |-> [class |-> "tag", tag |-> e.tags[k]]]
  ELSE <<>>

\* generateAudioPlayer
GenerateAudioPlayer(e) ==
  IF Falsy(e.musicSource) THEN <<>> ELSE <<[audio |-> e.musicSource]>>

\* one portfolio item of the home page
PortfolioItem(e) ==
  [ slug |-> e.slug, date |-> e.date, dataTags |-> e.tags,
    tagsHTML |-> TagsHTML(e), audioPlayer |-> GenerateAudioPlayer(e),
    content |-> e.content ]

PortfolioItems(es) == [k \in DOMAIN es |-> PortfolioItem(es[k])]

\* tagFilterHTML: "" when there is no tag, else "All" and one button per tag
TagFilterHTML(es) ==
  IF Len(AllTags(es)) > 0
  THEN [all |-> TRUE, buttons |-> AllTags(es)]
  ELSE [all |-> FALSE, buttons |-> <<>>]

Url(rel) == [site |-> SITE_URL, path |-> rel]
NoUrl == [site |-> "", path |-> Undefined]
\* one <meta> tag: its property and its content, a text or an absolute URL
MetaText(p, t) == [property |-> p, text |-> t, url |-> NoUrl]
MetaUrl(p, u) == [property |-> p, text |-> <<>>, url |-> u]

\* the description of the social tags
OgDescription(e) ==
  IF FalsyStr(e.description)
  THEN StripTags(Substring(ContentText(e.content), PreviewLen))
  ELSE e.description

\* generateOpenGraphTags (src/unnamed/part_000:237-289)
GenerateOpenGraphTags(e) ==
  LET isMusicPost == Includes(e.tags, Music) /\ ~Falsy(e.musicSource)
      base == << MetaText("og:description", OgDescription(e)),
                 MetaUrl("og:url", Url(RelPath(<<"/posts/">> \o e.slug, ""))) >>
      image == IF ~Falsy(e.waveformImage)
               THEN << MetaUrl("og:image", Url(e.waveformImage)) >>
               ELSE <<>>
      video == IF ~Falsy(e.videoSource)
               THEN << MetaText("og:type", <<"video.other">>),
                       MetaUrl("og:video", Url(e.videoSource)),
                       MetaUrl("og:audio", Url(e.musicSource)),
                       MetaUrl("twitter:player", Url(e.videoSource)) >>
               ELSE <<>>
  IN IF isMusicPost THEN base \o image \o video
     ELSE base \o << MetaText("og:type", <<"article">>) >>

\* the page writePost builds for an entry
PostPage(e) ==
  [ slug |-> e.slug, tagsHTML |-> TagsHTML(e),
    audioPlayer |-> GenerateAudioPlayer(e), ogTags |-> GenerateOpenGraphTags(e) ]

\* the description of a feed item
RssDescription(e) ==
  IF FalsyStr(e.description)
  THEN StripTags(Substring(ContentText(e.content), PreviewLen)) \o Ellipsis
  ELSE e.description

RssItem(e) ==
  [ slug |-> e.slug, pubDate |-> ToUTCString(e.date),
    description |-> RssDescription(e),
    enclosure |-> IF Falsy(e.musicSource) THEN <<>> ELSE <<Url(e.musicSource)>> ]

\* (mutant: no slice, every entry becomes an item)
RssItemsUnsliced(es) == [k \in DOMAIN es |-> RssItem(es[k])]

\* entries.slice(0, 20).map(...)
RssItems(es) ==
  LET n == IF Len(es) < FeedLimit THEN Len(es) ELSE FeedLimit
  IN [k \in 1..n |-> RssItem(es[k])]

\* ------------------------------------------------------ content directory

SourceFile(name, date, tags, music, cover, desc, body) ==
  [ filename |-> name, date |-> date, tags |-> tags, musicSource |-> music,
    coverImage |-> cover, description |-> desc, body |-> body ]

Given(t) == [given |-> TRUE, time |-> t]
NotGiven == [given |-> FALSE, time |-> 0]

SongA == RelPath(<<"/audio/a">>, "mp3")
MusicSources == {SongA}

ShortBody == [pre |-> 2, inner |-> 1, post |-> 1]

\* the files a content directory of the pipeline runs is drawn from
Catalogue ==
  << SourceFile(<<"a", ".", "m", "d">>, Given(2), <<Music>>, SongA, Undefined,
                <<>>, ShortBody),
     SourceFile(<<"b", ".", "m", "d">>, Given(1), <<Art, Music>>, SongA,
                RelPath(<<"/img/b">>, "jpg"), <<"d">>, ShortBody),
     SourceFile(<<"c", ".", "m", "d">>, Given(2), <<Music>>, Undefined, Undefined,
                <<>>, ShortBody),
     SourceFile(<<"d", ".", "m", "d", ".", "m", "d">>, Given(3), <<>>, SongA,
                Undefined, <<"d">>, ShortBody),
     SourceFile(<<"e", ".", "m", "d">>, NotGiven, <<Art>>, Undefined, Undefined,
                <<>>, ShortBody),
     SourceFile(<<"n", ".", "t", "x", "t">>, Given(1), <<Zen>>, Undefined,
                Undefined, <<>>, ShortBody) >>

SubCatalogue(S) ==
  LET idx == SeqOfSet(S) IN [k \in DOMAIN idx |-> Catalogue[idx[k]]]

\* directories of at most MaxFiles files
Sites ==
  { SubCatalogue(S) : S \in {T \in SUBSET DOMAIN Catalogue : Cardinality(T) <= MaxFiles} }

\* music-source values of one stem with the extensions a post may give:
\* the four the patterns know, in either case, and others
PathExts == {"mp3", "MP3", "wav", "WAV", "ogg", "m4a", "flac", "mp4"}
PathSources == {RelPath(<<"/audio/a">>, e) : e \in PathExts}

\* directories of one music post, one per music-source
PathSites ==
  { << SourceFile(<<"a", ".", "m", "d">>, Given(2), <<Music>>, src, Undefined,
                  <<>>, ShortBody) >> : src \in PathSources }

\* the directories of the runs checked for termination: an audio-eligible
\* post, a post without date, both or none
LiveSites == { SubCatalogue(S) : S \in SUBSET {1, 5} }

\* ---------------------------------------- directories of the assembly runs

\* rendered bodies around the 200-character cut: short; empty; long without
\* a tag; a tag inside the first 200 characters; a tag across the cut; a tag
\* after the cut
Bodies ==
  { ShortBody,
    [pre |-> 0, inner |-> 0 - 1, post |-> 0],
    [pre |-> 0, inner |-> 0 - 1, post |-> PreviewLen + 5],
    [pre |-> 10, inner |-> 3, post |-> PreviewLen],
    [pre |-> PreviewLen - 2, inner |-> 3, post |-> 4],
    [pre |-> PreviewLen, inner |-> 1, post |-> 1] }

TagPool == << <<Zen, Art>>, <<>>, <<Art, Ar, Art>>, <<Music, Zen>> >>

\* the k-th post of an assembly directory: no post is audio-eligible (the
\* one with a music tag has no music-source)
PostFile(k, date, shift, body) ==
  SourceFile(<<"p">> \o Repeat("x", k) \o MdSuffix, date,
             TagPool[((k + shift) % Len(TagPool)) + 1],
             IF (k + shift) % Len(TagPool) = 0 THEN SongA ELSE Undefined,
             Undefined,
             IF (k + shift) % 2 = 0 THEN <<"d">> ELSE <<>>,
             body)

RawDates == {Given(t) : t \in 1..MaxDate} \cup {NotGiven}

DateLists == UNION {[1..n -> RawDates] : n \in 0..MaxSmall}

SmallSites ==
  { [k \in DOMAIN ds |-> PostFile(k, ds[k], shift, IF k = 1 THEN body ELSE ShortBody)] :
      ds \in DateLists, shift \in 0..(Len(TagPool) - 1), body \in Bodies }

\* directories in which dates repeat, one per list of dates
ReadSites ==
  { [k \in DOMAIN ds |-> PostFile(k, ds[k], 0, ShortBody)] : ds \in DateLists }

\* the directories of the watch-mode runs: no post or one
WatchSites == {g \in ReadSites : Len(g) <= 1}

\* dates of a long directory: ascending, descending, all equal, repeating
PatternDate(pattern, k, n) ==
  CASE pattern = "asc" -> k
    [] pattern = "desc" -> n + 1 - k
    [] pattern = "equal" -> 1
    [] OTHER -> (k * 7) % 5

LargeSites ==
  { [k \in 1..n |-> PostFile(k, Given(PatternDate(pattern, k, n)), 0, ShortBody)] :
      n \in (FeedLimit - 1)..(FeedLimit + FeedSlack),
      pattern \in {"asc", "desc", "equal", "mod"} }

AssemblySites == SmallSites \cup LargeSites

\* the files derived-media generation reads or writes for an audio file
MediaPaths(src) ==
  LET audio == JoinOutput(src)
      image == WaveformPathOf(audio)
  IN {audio, VideoPathOf(audio), image, TempAudioOf(image), TempWaveformOf(image)}

DiskPaths == UNION {MediaPaths(src) : src \in MusicSources}

PathDiskPaths == UNION {MediaPaths(src) : src \in PathSources}

\* ---------------------------------------------------------------- state

VARIABLES
  files,      \* the content directory, in readdir order
  disk,       \* media files under docs/: path -> modification time, 0 = absent
  now,        \* the clock
  build,      \* number of generateSite runs started
  pc,         \* where the running generateSite is
  entries,    \* generateSite's entries
  i,          \* index of the entry the media loop is at
  img,        \* generatedImagePath of that entry (Null: waveform failed)
  invoked,    \* history: external commands of the media loop, [entry, cmd]
  startDisk,  \* history: disk when this run started (kept until the loop ends)
  touched,    \* history: audio files modified since the previous run ended
  manifest,   \* what this run wrote to docs/posts.json
  index,      \* what this run wrote to docs/index.html
  rss,        \* what this run wrote to docs/rss.xml
  pages,      \* the pages docs/posts/<slug>.html this run has written
  pending,    \* page writes issued by writePost and not completed
  running,    \* external commands started and not yet returned, [entry, cmd]
  error,      \* what generateSite's promise was rejected with ("" = nothing)
  unhandled,  \* page writes that failed: rejections nothing handles
  reads,      \* the result array of Promise.all while the reads complete
  runs        \* watch mode: the generateSite calls made, by order of call

vars == << files, disk, now, build, pc, entries, i, img, invoked, startDisk,
           touched, manifest, index, rss, pages, pending, running, error,
           unhandled, reads, runs >>

\* an output file nobody wrote yet
NotWritten == [build |-> 0, data |-> <<>>]

InitDisk(videoTime) ==
  [p \in DiskPaths |->
     IF \E src \in MusicSources : p = JoinOutput(src) THEN 2
     ELSE IF \E src \in MusicSources : p = VideoPathOf(JoinOutput(src)) THEN videoTime
     ELSE 0]

\* A session starts with some content directory; docs/ holds the audio
\* files and possibly videos of an earlier session, older or newer than the
\* audio.
InitRun ==
  /\ now = 3
  /\ build = 0
  /\ pc = "idle"
  /\ entries = <<>>
  /\ i = 0
  /\ img = Null
  /\ invoked = {}
  /\ startDisk = disk
  /\ touched = {}
  /\ manifest = NotWritten
  /\ index = NotWritten
  /\ rss = NotWritten
  /\ pages = {}
  /\ pending = {}
  /\ running = {}
  /\ error = ""
  /\ unhandled = {}
  /\ reads = <<>>
  /\ runs = <<>>

\* ------------------------------------------------------------ the build

Cur == entries[i]
CurAudio == AudioPathOf(Cur)
CurVideo == VideoPathOf(CurAudio)
CurImage == WaveformPathOf(CurAudio)

Ran(cmd) == invoked \cup {[entry |-> i, cmd |-> cmd]}

\* the positions at which the run awaits an external command (execAsync)
ExecPcs == {"probe", "extract", "waveform", "composite", "version", "encode"}

\* The subprocesses after a step of the loop: the awaited command cmd has
\* exited ("" when the step awaited none), and the command the run awaits
\* next has been started.
Awaited(cmd) ==
  LET rest == running \ {[entry |-> i, cmd |-> cmd]}
  IN IF pc' \in ExecPcs THEN rest \cup {[entry |-> i', cmd |-> pc']} ELSE rest

\* lines 156-157: the paths stored on the entry after both generators returned
AssignMedia(e, generatedImagePath) ==
  [e EXCEPT
     !.videoSource = ReplaceAudioExt(e.musicSource, <<>>, "mp4"),
     !.waveformImage = IF Falsy(generatedImagePath) THEN Null
                       ELSE ReplaceAudioExt(e.musicSource, <<"-waveform">>, "jpg")]

\* (mutant: the comparison the wrong way round)
UpToDateReversed(d, audio, video) == d[audio] > 0 /\ d[video] > 0 /\ d[video] < d[audio]

\* videoStat.mtime > audioStat.mtime, both files existing
UpToDate(d, audio, video) == d[audio] > 0 /\ d[video] > 0 /\ d[video] > d[audio]

\* generateSite() is called: on start, and again (a watch event, or the
\* command run again) once the previous run and its page writes have ended
StartBuild ==
  /\ pc \in {"idle", "done", "failed", "exited"}
  /\ pending = {}
  /\ build < MaxBuilds
  /\ build' = build + 1
  /\ now' = now + 2
  /\ pc' = "setup"
  /\ entries' = <<>>
  /\ i' = 0
  /\ img' = Null
  /\ invoked' = {}
  /\ startDisk' = disk
  /\ manifest' = NotWritten
  /\ index' = NotWritten
  /\ rss' = NotWritten
  /\ pages' = {}
  /\ running' = {}
  /\ error' = ""
  /\ unhandled' = {}
  /\ reads' = <<>>
  /\ UNCHANGED <<runs, files, disk, touched, pending>>

\* the audio file of a post is replaced between two runs
TouchAudio ==
  /\ pc \in {"done", "failed"}
  /\ pending = {}
  /\ build < MaxBuilds
  /\ \E src \in MusicSources :
       /\ JoinOutput(src) \notin touched
       /\ disk' = [disk EXCEPT ![JoinOutput(src)] = now + 1]
       /\ touched' = touched \cup {JoinOutput(src)}
  /\ UNCHANGED <<running, error, unhandled, reads, runs, files, now, build, pc, entries, i, img, invoked, startDisk,
                 manifest, index, rss, pages, pending>>

\* fs.mkdir(OUTPUT_DIR), the two templates are read
Setup ==
  /\ pc = "setup"
  /\ pc' = "parse"
  /\ UNCHANGED <<running, error, unhandled, reads, runs, files, disk, now, build, entries, i, img, invoked, startDisk,
                 touched, manifest, index, rss, pages, pending>>

\* readdir, the filter and Promise.all over the reads have completed
Parse ==
  /\ pc = "parse"
  /\ entries' = ParseAll(files)
  /\ pc' = "loop"
  /\ UNCHANGED <<running, error, unhandled, reads, runs, files, disk, now, build, i, img, invoked, startDisk, touched,
                 manifest, index, rss, pages, pending>>

\* ---- Promise.all over the reads, one completion at a time

\* a slot of the result array: rank 0 while its read is in flight, else the
\* rank of the read among the completions and the entry it resolved to
Unresolved == [rank |-> 0, value |-> <<>>]
Resolved(reads_) == {k \in DOMAIN reads_ : reads_[k].rank > 0}

\* markdownFiles.map(async file => ...): every read is started at once
ParseIssue ==
  /\ pc = "parse"
  /\ reads' = [k \in DOMAIN FilterMd(files) |-> Unresolved]
  /\ pc' = "reading"
  /\ UNCHANGED <<files, disk, now, build, entries, i, img, invoked, startDisk,
                 touched, manifest, index, rss, pages, pending, running, error,
                 unhandled, runs>>

\* (mutant: each callback pushes its entry on a shared array when its read
\* completes)
ReadDonePush ==
  /\ pc = "reading"
  /\ \E k \in DOMAIN reads :
       /\ \A m \in Resolved(reads) :
            reads[m].value[1].filename # FilterMd(files)[k].filename
       /\ LET n == Cardinality(Resolved(reads)) + 1
          IN reads' = [reads EXCEPT
                         ![n] = [rank |-> n,
                                 value |-> <<ParseEntry(FilterMd(files)[k])>>]]
  /\ UNCHANGED <<files, disk, now, build, pc, entries, i, img, invoked,
                 startDisk, touched, manifest, index, rss, pages, pending,
                 running, error, unhandled, runs>>

\* the read and parse of one file complete, in any order: Promise.all puts
\* the value at the index of its promise
ReadDone ==
  /\ pc = "reading"
  /\ \E k \in DOMAIN reads \ Resolved(reads) :
       reads' = [reads EXCEPT
                   ![k] = [rank |-> Cardinality(Resolved(reads)) + 1,
                           value |-> <<ParseEntry(FilterMd(files)[k])>>]]
  /\ UNCHANGED <<files, disk, now, build, pc, entries, i, img, invoked,
                 startDisk, touched, manifest, index, rss, pages, pending,
                 running, error, unhandled, runs>>

\* every read has completed: Promise.all resolves to the result array
ParseJoin ==
  /\ pc = "reading"
  /\ Resolved(reads) = DOMAIN reads
  /\ entries' = [k \in DOMAIN reads |-> reads[k].value[1]]
  /\ pc' = "loop"
  /\ UNCHANGED <<files, disk, now, build, i, img, invoked, startDisk, touched,
                 manifest, index, rss, pages, pending, running, error,
                 unhandled, reads, runs>>

\* for (const entry of entries): the next entry, or the end of the loop
LoopNext ==
  /\ pc = "loop"
  /\ IF i < Len(entries)
     THEN /\ i' = i + 1
          /\ pc' = IF AudioEligible(entries[i + 1]) THEN "probe" ELSE "loop"
     ELSE /\ i' = i
          /\ pc' = "manifest"
  /\ img' = Null
  /\ UNCHANGED <<error, unhandled, reads, runs, files, disk, now, build, entries, invoked, startDisk, touched,
                 manifest, index, rss, pages, pending>>
  /\ running' = Awaited("")

\* (mutant: no try/catch, a failing ffprobe rejects generateSite)
WaveProbeThrows ==
  /\ pc = "probe"
  /\ invoked' = Ran("probe")
  /\ \E ok \in BOOLEAN : pc' = IF ok THEN "extract" ELSE "failed"
  /\ UNCHANGED <<error, unhandled, reads, runs, files, disk, now, build, entries, i, img, startDisk, touched,
                 manifest, index, rss, pages, pending>>
  /\ running' = Awaited("probe")

\* generateWaveformImage: ffprobe returns or fails
WaveProbe ==
  /\ pc = "probe"
  /\ invoked' = Ran("probe")
  /\ \E ok \in BOOLEAN : pc' = IF ok THEN "extract" ELSE "version"
  /\ UNCHANGED <<error, unhandled, reads, runs, files, disk, now, build, entries, i, img, startDisk, touched,
                 manifest, index, rss, pages, pending>>
  /\ running' = Awaited("probe")

\* the first 50 seconds are extracted to the temporary audio file
WaveExtract ==
  /\ pc = "extract"
  /\ invoked' = Ran("extract")
  /\ \E ok \in BOOLEAN :
       IF ok
       THEN /\ disk' = [disk EXCEPT ![TempAudioOf(CurImage)] = now]
            /\ pc' = "waveform"
       ELSE /\ disk' = disk
            /\ pc' = "version"
  /\ UNCHANGED <<error, unhandled, reads, runs, files, now, build, entries, i, img, startDisk, touched,
                 manifest, index, rss, pages, pending>>
  /\ running' = Awaited("extract")

\* the waveform picture is rendered to the temporary image
WaveRender ==
  /\ pc = "waveform"
  /\ invoked' = Ran("waveform")
  /\ \E ok \in BOOLEAN :
       IF ok
       THEN /\ disk' = [disk EXCEPT ![TempWaveformOf(CurImage)] = now]
            /\ pc' = "composite"
       ELSE /\ disk' = disk
            /\ pc' = "version"
  /\ UNCHANGED <<error, unhandled, reads, runs, files, now, build, entries, i, img, startDisk, touched,
                 manifest, index, rss, pages, pending>>
  /\ running' = Awaited("waveform")

\* (mutant: an output image that exists is kept, not written again)
WaveCompositeKeepsExisting ==
  /\ pc = "composite"
  /\ invoked' = Ran("composite")
  /\ \E ok \in BOOLEAN :
       IF ok
       THEN /\ disk' = IF disk[CurImage] > 0 THEN disk
                       ELSE [disk EXCEPT ![CurImage] = now]
            /\ pc' = "cleanup"
       ELSE /\ disk' = disk
            /\ pc' = "version"
  /\ UNCHANGED <<error, unhandled, reads, runs, files, now, build, entries, i, img, startDisk, touched,
                 manifest, index, rss, pages, pending>>
  /\ running' = Awaited("composite")

\* the waveform is composited over the cover image into the output image
WaveComposite ==
  /\ pc = "composite"
  /\ invoked' = Ran("composite")
  /\ \E ok \in BOOLEAN :
       IF ok
       THEN /\ disk' = [disk EXCEPT ![CurImage] = now]
            /\ pc' = "cleanup"
       ELSE /\ disk' = disk
            /\ pc' = "version"
  /\ UNCHANGED <<error, unhandled, reads, runs, files, now, build, entries, i, img, startDisk, touched,
                 manifest, index, rss, pages, pending>>
  /\ running' = Awaited("composite")

\* (mutant: only the temporary waveform is unlinked)
WaveCleanupKeepsAudio ==
  /\ pc = "cleanup"
  /\ disk' = [disk EXCEPT ![TempWaveformOf(CurImage)] = 0]
  /\ img' = CurImage
  /\ pc' = "version"
  /\ UNCHANGED <<error, unhandled, reads, runs, files, now, build, entries, i,
                 invoked, startDisk, touched, manifest, index, rss, pages,
                 pending>>
  /\ running' = Awaited("")

\* both temporary files are unlinked and the output path is returned
WaveCleanup ==
  /\ pc = "cleanup"
  /\ disk' = [disk EXCEPT ![TempWaveformOf(CurImage)] = 0,
                          ![TempAudioOf(CurImage)] = 0]
  /\ img' = CurImage
  /\ pc' = "version"
  /\ UNCHANGED <<error, unhandled, reads, runs, files, now, build, entries, i, invoked, startDisk, touched,
                 manifest, index, rss, pages, pending>>
  /\ running' = Awaited("")

\* generateVideoFromAudio has returned: lines 156-157, then the loop goes on
FinishEntry ==
  /\ entries' = [entries EXCEPT ![i] = AssignMedia(Cur, img)]
  /\ pc' = "loop"

\* (mutant: after a failed availability check the media generation of the
\* entry is started over)
VideoVersionRetried ==
  /\ pc = "version"
  /\ invoked' = Ran("version")
  /\ \E ok \in BOOLEAN :
       /\ pc' = IF ok THEN "stat" ELSE "probe"
       /\ entries' = entries
  /\ UNCHANGED <<error, unhandled, reads, runs, files, disk, now, build, i, img, startDisk, touched,
                 manifest, index, rss, pages, pending>>
  /\ running' = Awaited("version")

\* generateVideoFromAudio: 'ffmpeg -version' returns or fails
VideoVersion ==
  /\ pc = "version"
  /\ invoked' = Ran("version")
  /\ \E ok \in BOOLEAN :
       IF ok THEN pc' = "stat" /\ entries' = entries ELSE FinishEntry
  /\ UNCHANGED <<error, unhandled, reads, runs, files, disk, now, build, i, img, startDisk, touched,
                 manifest, index, rss, pages, pending>>
  /\ running' = Awaited("version")

\* the two fs.stat calls: an up-to-date video ends the function
VideoStat ==
  /\ pc = "stat"
  /\ IF UpToDate(disk, CurAudio, CurVideo)
     THEN FinishEntry
     ELSE pc' = "encode" /\ entries' = entries
  /\ UNCHANGED <<error, unhandled, reads, runs, files, disk, now, build, i, img, invoked, startDisk, touched,
                 manifest, index, rss, pages, pending>>
  /\ running' = Awaited("")

\* (mutant: the encoder is started and not awaited)
VideoEncodeNotAwaited ==
  /\ pc = "encode"
  /\ invoked' = Ran("encode")
  /\ FinishEntry
  /\ UNCHANGED <<error, unhandled, reads, runs, files, disk, now, build, i, img,
                 startDisk, touched, manifest, index, rss, pages, pending,
                 running>>

\* the encoder returns or fails
VideoEncode ==
  /\ pc = "encode"
  /\ invoked' = Ran("encode")
  /\ \E ok \in BOOLEAN :
       disk' = IF ok THEN [disk EXCEPT ![CurVideo] = now] ELSE disk
  /\ FinishEntry
  /\ UNCHANGED <<error, unhandled, reads, runs, files, now, build, i, img, startDisk, touched,
                 manifest, index, rss, pages, pending>>
  /\ running' = Awaited("encode")

\* the page writes writePost starts, one per entry; none is awaited
IssuedPages(es, b) == {[build |-> b, page |-> PostPage(es[k])] : k \in DOMAIN es}

\* The loop is over: the sort, postsMetadata (toISOString throws on an
\* Invalid Date and the run ends rejected), posts.json is written; then
\* allTags and portfolioItems are computed, which starts the page writes.
WriteManifest ==
  /\ pc = "manifest"
  /\ LET sorted == SortEntries(entries)
     IN /\ entries' = sorted
        /\ IF \E k \in DOMAIN sorted : ~ValidDate(sorted[k].date)
           THEN /\ pc' = "failed"
                /\ error' = "date"
                /\ touched' = {}
                /\ UNCHANGED <<manifest, pending>>
           ELSE /\ manifest' = [build |-> build, data |-> PostsMetadata(sorted)]
                /\ pending' = pending \cup IssuedPages(sorted, build)
                /\ pc' = "index"
                /\ error' = error
                /\ touched' = touched
  /\ invoked' = {}
  /\ startDisk' = disk
  /\ UNCHANGED <<running, unhandled, reads, runs, files, disk, now, build, i, img, index, rss, pages>>

\* index.html is written
WriteIndex ==
  /\ pc = "index"
  /\ index' = [build |-> build,
               data |-> [items |-> PortfolioItems(entries),
                         tagFilters |-> TagFilterHTML(entries)]]
  /\ pc' = "rss"
  /\ UNCHANGED <<running, error, unhandled, reads, runs, files, disk, now, build, entries, i, img, invoked, startDisk,
                 touched, manifest, rss, pages, pending>>

\* generateRSSFeed: rss.xml is written, then 'Site generated successfully!'
WriteRSS ==
  /\ pc = "rss"
  /\ rss' = [build |-> build, data |-> RssItems(entries)]
  /\ pc' = "done"
  /\ touched' = {}
  /\ UNCHANGED <<running, error, unhandled, reads, runs, files, disk, now, build, entries, i, img, invoked, startDisk,
                 manifest, index, pages, pending>>

\* the fs.writeFile of some writePost call completes
PageWriteDone ==
  /\ \E w \in pending :
       /\ pending' = pending \ {w}
       /\ pages' = {q \in pages : q.page.slug # w.page.slug} \cup {w}
  /\ UNCHANGED <<running, error, unhandled, reads, runs, files, disk, now, build, pc, entries, i, img, invoked,
                 startDisk, touched, manifest, index, rss>>
\* ------------------------------------------------- file-system failures

\* what generateSite is rejected with before the media loop
SetupErrors == {"mkdir", "template", "postTemplate", "readdir", "read"}

\* generateSite's promise is rejected: nothing catches inside the function
Reject(cause) ==
  /\ pc' = "failed"
  /\ error' = cause
  /\ touched' = {}

\* fs.mkdir(OUTPUT_DIR) or one of the two template reads throws
SetupFails ==
  /\ pc = "setup"
  /\ \E cause \in {"mkdir", "template", "postTemplate"} : Reject(cause)
  /\ UNCHANGED <<files, disk, now, build, entries, i, img, invoked, startDisk,
                 manifest, index, rss, pages, pending, running, unhandled,
                 reads, runs>>

\* (mutant: a post that cannot be read is logged and left out)
ParseSkipsUnreadable ==
  /\ pc = "parse"
  /\ FilterMd(files) # <<>>
  /\ entries' = Tail(ParseAll(files))
  /\ pc' = "loop"
  /\ error' = "read"
  /\ UNCHANGED <<files, disk, now, build, i, img, invoked, startDisk, touched,
                 manifest, index, rss, pages, pending, running, unhandled,
                 reads, runs>>

\* fs.readdir throws, or the read or the front-matter parse of one post
\* throws and Promise.all rejects
ParseFails ==
  /\ pc = "parse"
  /\ \E cause \in {"readdir", "read"} :
       /\ cause = "read" => FilterMd(files) # <<>>
       /\ Reject(cause)
  /\ UNCHANGED <<files, disk, now, build, entries, i, img, invoked, startDisk,
                 manifest, index, rss, pages, pending, running, unhandled,
                 reads, runs>>

\* the fs.writeFile of posts.json throws: the sort and postsMetadata are
\* done, no page write has been started
WriteManifestFails ==
  /\ pc = "manifest"
  /\ \A k \in DOMAIN entries : ValidDate(entries[k].date)
  /\ entries' = SortEntries(entries)
  /\ Reject("write")
  /\ invoked' = {}
  /\ startDisk' = disk
  /\ UNCHANGED <<files, disk, now, build, i, img, manifest, index, rss, pages,
                 pending, running, unhandled, reads, runs>>

\* the fs.writeFile of index.html throws
WriteIndexFails ==
  /\ pc = "index"
  /\ Reject("write")
  /\ UNCHANGED <<files, disk, now, build, entries, i, img, invoked, startDisk,
                 manifest, index, rss, pages, pending, running, unhandled,
                 reads, runs>>

\* the fs.writeFile of rss.xml throws inside generateRSSFeed
WriteRSSFails ==
  /\ pc = "rss"
  /\ Reject("write")
  /\ UNCHANGED <<files, disk, now, build, entries, i, img, invoked, startDisk,
                 manifest, index, rss, pages, pending, running, unhandled,
                 reads, runs>>

\* The fs.writeFile of some writePost call throws (docs/posts is never
\* created by the build).  The promise of writePost is held by nobody: the
\* rejection is unhandled, and the runtime either only warns or ends the
\* process.
PageWriteFails ==
  /\ \E w \in pending, exits \in BOOLEAN :
       /\ unhandled' = unhandled \cup {w}
       /\ IF exits
          THEN pc' = "exited" /\ pending' = {}
          ELSE pc' = pc /\ pending' = pending \ {w}
  /\ UNCHANGED <<files, disk, now, build, entries, i, img, invoked, startDisk,
                 touched, manifest, index, rss, pages, running, error, reads,
                 runs>>

Next ==
  \/ StartBuild
  \/ TouchAudio
  \/ Setup
  \/ Parse
  \/ LoopNext
  \/ WaveProbe
  \/ WaveExtract
  \/ WaveRender
  \/ WaveComposite
  \/ WaveCleanup
  \/ VideoVersion
  \/ VideoStat
  \/ VideoEncode
  \/ WriteManifest
  \/ WriteIndex
  \/ WriteRSS
  \/ PageWriteDone

Init ==
  /\ files \in Sites
  /\ \E videoTime \in {0, 1, 3} : disk = InitDisk(videoTime)
  /\ InitRun

Spec == Init /\ [][Next]_vars

\* The assembly of one run (no audio-eligible post, the page writes still
\* in flight) over the larger directories.
AssemblyInit ==
  /\ files \in AssemblySites
  /\ disk = InitDisk(0)
  /\ InitRun

AssemblyNext ==
  \/ StartBuild
  \/ Setup
  \/ Parse
  \/ LoopNext
  \/ WriteManifest
  \/ WriteIndex
  \/ WriteRSS

AssemblySpec == AssemblyInit /\ [][AssemblyNext]_vars

\* ------------------------------------------------------------ watch mode
\*
\* chokidar calls the handler for every event (the 'add' events of the
\* files found at start included); the handler calls generateSite() and
\* returns.  Every call is a run of its own, runs[r], with its own entries;
\* the runs share the content directory and the output files.  The
\* directories have no audio-eligible post, so a run has no await between
\* its parse and its write of posts.json.

\* a run follows its steps whatever the other runs do
SetRun(r, pc_, entries_) == runs' = [runs EXCEPT ![r] = [pc |-> pc_, entries |-> entries_]]

\* (mutant: an event during a run in progress is dropped)
WatchEventSerialised ==
  /\ Len(runs) < MaxBuilds
  /\ \A r \in DOMAIN runs : runs[r].pc \in {"done", "failed"}
  /\ \E f \in WatchSites : files' = f
  /\ runs' = Append(runs, [pc |-> "setup", entries |-> <<>>])
  /\ UNCHANGED <<disk, now, build, pc, entries, i, img, invoked, startDisk,
                 touched, manifest, index, rss, pages, pending, running, error,
                 unhandled, reads>>

\* The content directory has changed, or not (an 'add' of the initial
\* scan): the handler calls generateSite() without looking at the runs in
\* progress.
WatchEvent ==
  /\ Len(runs) < MaxBuilds
  /\ \E f \in WatchSites : files' = f
  /\ runs' = Append(runs, [pc |-> "setup", entries |-> <<>>])
  /\ UNCHANGED <<disk, now, build, pc, entries, i, img, invoked, startDisk,
                 touched, manifest, index, rss, pages, pending, running, error,
                 unhandled, reads>>

RunSetup(r) ==
  /\ runs[r].pc = "setup"
  /\ SetRun(r, "parse", <<>>)
  /\ UNCHANGED <<files, disk, now, build, pc, entries, i, img, invoked,
                 startDisk, touched, manifest, index, rss, pages, pending,
                 running, error, unhandled, reads>>

\* the directory is read as it is now; the loop, the sort and postsMetadata
\* follow without an await
RunParse(r) ==
  /\ runs[r].pc = "parse"
  /\ LET sorted == SortEntries(ParseAll(files))
     IN IF \E k \in DOMAIN sorted : ~ValidDate(sorted[k].date)
        THEN SetRun(r, "failed", sorted)
        ELSE SetRun(r, "manifest", sorted)
  /\ UNCHANGED <<files, disk, now, build, pc, entries, i, img, invoked,
                 startDisk, touched, manifest, index, rss, pages, pending,
                 running, error, unhandled, reads>>

\* posts.json is written; portfolioItems starts the page writes
RunWriteManifest(r) ==
  /\ runs[r].pc = "manifest"
  /\ manifest' = [build |-> r, data |-> PostsMetadata(runs[r].entries)]
  /\ pending' = pending \cup IssuedPages(runs[r].entries, r)
  /\ SetRun(r, "index", runs[r].entries)
  /\ UNCHANGED <<files, disk, now, build, pc, entries, i, img, invoked,
                 startDisk, touched, index, rss, pages, running, error,
                 unhandled, reads>>

RunWriteIndex(r) ==
  /\ runs[r].pc = "index"
  /\ index' = [build |-> r,
               data |-> [items |-> PortfolioItems(runs[r].entries),
                         tagFilters |-> TagFilterHTML(runs[r].entries)]]
  /\ SetRun(r, "rss", runs[r].entries)
  /\ UNCHANGED <<files, disk, now, build, pc, entries, i, img, invoked,
                 startDisk, touched, manifest, rss, pages, pending, running,
                 error, unhandled, reads>>

RunWriteRSS(r) ==
  /\ runs[r].pc = "rss"
  /\ rss' = [build |-> r, data |-> RssItems(runs[r].entries)]
  /\ SetRun(r, "done", runs[r].entries)
  /\ UNCHANGED <<files, disk, now, build, pc, entries, i, img, invoked,
                 startDisk, touched, manifest, index, pages, pending, running,
                 error, unhandled, reads>>

\* the next step of run r
RunStep(r) ==
  \/ RunSetup(r)
  \/ RunParse(r)
  \/ RunWriteManifest(r)
  \/ RunWriteIndex(r)
  \/ RunWriteRSS(r)

WatchInit ==
  /\ files \in WatchSites
  /\ disk = InitDisk(0)
  /\ InitRun

WatchNext ==
  \/ WatchEvent
  \/ \E r \in DOMAIN runs : RunSetup(r)
  \/ \E r \in DOMAIN runs : RunParse(r)
  \/ \E r \in DOMAIN runs : RunWriteManifest(r)
  \/ \E r \in DOMAIN runs : RunWriteIndex(r)
  \/ \E r \in DOMAIN runs : RunWriteRSS(r)
  \/ PageWriteDone

WatchSpec == WatchInit /\ [][WatchNext]_vars

\* The runs over a music post whose music-source has any extension; every
\* audio file exists.
PathInit ==
  /\ files \in PathSites
  /\ disk = [p \in PathDiskPaths |->
               IF \E src \in PathSources : p = JoinOutput(src) THEN 2 ELSE 0]
  /\ InitRun

PathSpec == PathInit /\ [][Next]_vars

\* The steps of a run: each is the return of what the run awaits.
RunNext ==
  \/ Setup
  \/ Parse
  \/ LoopNext
  \/ WaveProbe
  \/ WaveExtract
  \/ WaveRender
  \/ WaveComposite
  \/ WaveCleanup
  \/ VideoVersion
  \/ VideoStat
  \/ VideoEncode
  \/ WriteManifest
  \/ WriteIndex
  \/ WriteRSS

\* The runs in which every external command and every file operation that
\* was started returns: no step of a run waits forever.
LiveInit ==
  /\ files \in LiveSites
  /\ disk = InitDisk(0)
  /\ InitRun

LiveNext ==
  \/ StartBuild
  \/ RunNext
  \/ PageWriteDone

LiveSpec ==
  LiveInit /\ [][LiveNext]_vars /\ WF_vars(RunNext) /\ WF_vars(PageWriteDone)

\* The runs with the reads of the posts completing in any order.
ReadInit ==
  /\ files \in ReadSites
  /\ disk = InitDisk(0)
  /\ InitRun

ReadNext ==
  \/ StartBuild
  \/ Setup
  \/ ParseIssue
  \/ ReadDone
  \/ ParseJoin
  \/ LoopNext
  \/ WriteManifest
  \/ WriteIndex
  \/ WriteRSS

ReadSpec == ReadInit /\ [][ReadNext]_vars

\* The runs with a file system that can fail: every step of generateSite
\* that reads or writes files either returns or throws.
FaultInit ==
  /\ files \in Sites
  /\ disk = InitDisk(0)
  /\ InitRun

FaultNext ==
  \/ StartBuild
  \/ Setup
  \/ SetupFails
  \/ Parse
  \/ ParseFails
  \/ LoopNext
  \/ WaveProbe
  \/ WaveExtract
  \/ WaveRender
  \/ WaveComposite
  \/ WaveCleanup
  \/ VideoVersion
  \/ VideoStat
  \/ VideoEncode
  \/ WriteManifest
  \/ WriteManifestFails
  \/ WriteIndex
  \/ WriteIndexFails
  \/ WriteRSS
  \/ WriteRSSFails
  \/ PageWriteDone
  \/ PageWriteFails

FaultSpec == FaultInit /\ [][FaultNext]_vars

\* ------------------------------------------------------------ properties

\* the posts of the content directory: the files named <something>.md
MdFiles == {k \in DOMAIN files : EndsWith(files[k].filename, MdSuffix)}
AllDated == \A k \in MdFiles : files[k].date.given
\* the source file of a slug
IsSourceOf(k, slug) == k \in MdFiles /\ files[k].filename = slug \o MdSuffix
ManifestWritten == manifest.build # 0 /\ manifest.build = build
IndexWritten == index.build # 0 /\ index.build = build
RssWritten == rss.build # 0 /\ rss.build = build
Min(a, b) == IF a < b THEN a ELSE b

\* C1: when every post has a valid date the run does not fail, and the
\* posts.json it writes has exactly one record per '.md' file of the content
\* directory: as many records as '.md' files, every record's slug is the
\* stem of one '.md' file, every '.md' file's stem is the slug of a record,
\* and no two records share a slug.
C1_ManifestOneRecordPerPost ==
  /\ AllDated => pc # "failed"
  /\ ManifestWritten =>
       /\ Len(manifest.data) = Cardinality(MdFiles)
       /\ \A r \in DOMAIN manifest.data :
            \E k \in MdFiles : IsSourceOf(k, manifest.data[r].slug)
       /\ \A k \in MdFiles :
            \E r \in DOMAIN manifest.data : IsSourceOf(k, manifest.data[r].slug)
       /\ \A r, q \in DOMAIN manifest.data :
            manifest.data[r].slug = manifest.data[q].slug => r = q

\* a finished run over a directory of two posts and a slug that itself ends
\* in ".md" (file d.md.md)
C1_Witness ==
  /\ pc = "done"
  /\ ManifestWritten
  /\ Len(manifest.data) = 2
  /\ \E r \in DOMAIN manifest.data : manifest.data[r].slug = <<"d", ".", "m", "d">>

\* C2: the records of posts.json, the cards of index.html and the items of
\* rss.xml are in date-descending order (an entry with a later date comes
\* before an entry with an earlier date, never after), every record carries
\* the date of its source file, and the three outputs list the entries in
\* the same order (the feed being a prefix of it).
C2_OutputsDateDescending ==
  /\ ManifestWritten =>
       /\ \A a, b \in DOMAIN manifest.data :
            a < b => manifest.data[a].date.iso >= manifest.data[b].date.iso
       /\ \A r \in DOMAIN manifest.data :
            \E k \in MdFiles :
              /\ IsSourceOf(k, manifest.data[r].slug)
              /\ files[k].date.time = manifest.data[r].date.iso
  /\ IndexWritten =>
       /\ Len(index.data.items) = Len(manifest.data)
       /\ \A a \in DOMAIN index.data.items :
            /\ index.data.items[a].slug = manifest.data[a].slug
            /\ index.data.items[a].date.time = manifest.data[a].date.iso
  /\ RssWritten =>
       /\ Len(rss.data) <= Len(manifest.data)
       /\ \A a \in DOMAIN rss.data :
            /\ rss.data[a].slug = manifest.data[a].slug
            /\ rss.data[a].pubDate.utc = manifest.data[a].date.iso

\* a finished run whose directory lists an earlier post before a later one
\* and holds two posts of the same date
C2_Witness ==
  /\ pc = "done"
  /\ RssWritten
  /\ Len(manifest.data) >= 3
  /\ \E j, k \in MdFiles : j < k /\ files[j].date.time < files[k].date.time
  /\ \E j, k \in MdFiles : j # k /\ files[j].date.time = files[k].date.time

\* C3: rss.xml holds exactly min(20, n) items for n posts, they are the
\* first min(20, n) entries of the date-descending order, and no post left
\* out of the feed has a later date than an item of the feed.
C3_FeedIsLatestTwenty ==
  RssWritten =>
    /\ Len(rss.data) = Min(FeedLimit, Cardinality(MdFiles))
    /\ \A a \in DOMAIN rss.data : rss.data[a].slug = manifest.data[a].slug
    /\ \A k \in MdFiles :
         (\A a \in DOMAIN rss.data : ~IsSourceOf(k, rss.data[a].slug))
           => \A a \in DOMAIN rss.data : files[k].date.time <= rss.data[a].pubDate.utc

\* a finished run over more than 20 posts, in ascending date order in the
\* directory
C3_Witness ==
  /\ pc = "done"
  /\ RssWritten
  /\ Cardinality(MdFiles) > FeedLimit
  /\ Len(rss.data) = FeedLimit
  /\ \E j, k \in MdFiles : j < k /\ files[j].date.time < files[k].date.time

\* C4: the tag filter of the home page lists exactly the tags that occur on
\* some post, each once, in ascending (code unit) order; the card of a post
\* has one badge per tag of the post, in the post's order, and a post with
\* no tags has no badge markup and adds nothing to the filter.
C4_TagSetSortedUnion ==
  IndexWritten =>
    LET buttons == index.data.tagFilters.buttons
    IN /\ Range(buttons) = UNION {Range(files[k].tags) : k \in MdFiles}
       /\ \A a, b \in DOMAIN buttons : a < b => StrLess(buttons[a], buttons[b])
       /\ index.data.tagFilters.all = (buttons # <<>>)
       /\ \A c \in DOMAIN index.data.items :
            \E k \in MdFiles :
              /\ IsSourceOf(k, index.data.items[c].slug)
              /\ Len(index.data.items[c].tagsHTML) = Len(files[k].tags)
              /\ \A t \in DOMAIN files[k].tags :
                   index.data.items[c].tagsHTML[t].tag = files[k].tags[t]

\* a finished run with a post without tags, a tag shared by two posts and a
\* post whose tags are not in ascending order
C4_Witness ==
  /\ pc = "done"
  /\ IndexWritten
  /\ Len(index.data.tagFilters.buttons) >= 3
  /\ \E k \in MdFiles : files[k].tags = <<>>
  /\ \E j, k \in MdFiles : j # k /\ Range(files[j].tags) \cap Range(files[k].tags) # {}
  /\ \E k \in MdFiles : \E a, b \in DOMAIN files[k].tags :
       a < b /\ StrLess(files[k].tags[b], files[k].tags[a])

\* ------------------------------------------------- derived-media properties

\* the positions of a run from the start of the media loop to its end
LoopPcs == {"loop", "probe", "extract", "waveform", "composite", "cleanup",
            "version", "stat", "encode", "manifest"}
Eligible == {k \in DOMAIN entries : AudioEligible(entries[k])}
AudioOf(k) == JoinOutput(entries[k].musicSource)
VideoOf(k) == VideoPathOf(AudioOf(k))
ImageOf(k) == WaveformPathOf(AudioOf(k))
\* both generators have returned for entry k
Finished(k) == k < i \/ (k = i /\ pc \in {"loop", "manifest"})
RanFor(k, cmd) == [entry |-> k, cmd |-> cmd] \in invoked
\* the video of entry k was newer than its audio file when the run started
VideoWasNewer(k) ==
  startDisk[VideoOf(k)] > 0 /\ startDisk[VideoOf(k)] > startDisk[AudioOf(k)]
\* no entry had the encoder run on the audio file of entry k
NotEncoded(k) ==
  \A r \in invoked : r.cmd = "encode" => AudioOf(r.entry) # AudioOf(k)

\* C5 (as stated): in a run after the first, for an audio file not modified
\* since the previous run and an output video that existed when the run
\* started, the encoder is not invoked and the video keeps its modification
\* time.
C5_Original ==
  pc \in LoopPcs =>
    \A k \in Eligible :
      (build >= 2 /\ AudioOf(k) \notin touched /\ startDisk[VideoOf(k)] > 0)
        => NotEncoded(k) /\ disk[VideoOf(k)] = startDisk[VideoOf(k)]

\* C5 (amended): the encoder is about to run only when the output video is
\* missing or not newer than the audio file; and in any run (so also in a
\* run that follows another with the audio file unchanged) an output video
\* that was newer than the audio file when the run started is not encoded
\* again and keeps its modification time.
C5_UpToDateVideoNotEncoded ==
  /\ pc = "encode" =>
       ~(disk[CurVideo] > 0 /\ disk[CurVideo] > disk[CurAudio])
  /\ pc \in LoopPcs =>
       \A k \in Eligible :
         VideoWasNewer(k) => NotEncoded(k) /\ disk[VideoOf(k)] = startDisk[VideoOf(k)]

\* the second run has gone through the media loop for an audio file left
\* alone since the first run, which had written the video: the availability
\* check ran, the encoder did not
C5_Witness ==
  /\ build = 2
  /\ pc = "manifest"
  /\ \E k \in Eligible :
       /\ AudioOf(k) \notin touched
       /\ VideoWasNewer(k)
       /\ startDisk[VideoOf(k)] = now - 2
       /\ RanFor(k, "version")
       /\ NotEncoded(k)

\* C6 (as stated): in a run after the first, for an audio-eligible entry
\* whose audio file is unchanged and whose waveform image and (up-to-date)
\* video exist from the previous run, no waveform, composite or encode
\* command is run for the entry and neither file is rewritten.
C6_Original ==
  pc \in LoopPcs =>
    \A k \in Eligible :
      ( /\ build >= 2
        /\ AudioOf(k) \notin touched
        /\ startDisk[ImageOf(k)] > 0
        /\ VideoWasNewer(k) )
        => /\ \A r \in invoked :
                r.entry = k => r.cmd \notin {"waveform", "composite", "encode"}
           /\ disk[ImageOf(k)] = startDisk[ImageOf(k)]
           /\ disk[VideoOf(k)] = startDisk[VideoOf(k)]

\* C6 (amended): only the video has an up-to-date check.  In a run after
\* the first, with the audio file unchanged and the video newer than it, the
\* encoder is not run and the video is not rewritten; the waveform image is
\* generated again in every run: ffprobe is run for every audio-eligible
\* entry whatever exists, and when the generation succeeds the trim, render
\* and composite commands have run and the image carries this run's time.
C6_OnlyVideoIsSkipped ==
  pc \in LoopPcs =>
    \A k \in Eligible :
      /\ (build >= 2 /\ AudioOf(k) \notin touched /\ VideoWasNewer(k))
           => NotEncoded(k) /\ disk[VideoOf(k)] = startDisk[VideoOf(k)]
      /\ Finished(k) => RanFor(k, "probe")
      /\ (Finished(k) /\ entries[k].waveformImage.kind = "path") =>
           /\ RanFor(k, "extract")
           /\ RanFor(k, "waveform")
           /\ RanFor(k, "composite")
           /\ disk[ImageOf(k)] = now

\* the second run, audio unchanged, image and up-to-date video left by the
\* first: the video is kept, the image has been composited again
C6_Witness ==
  /\ build = 2
  /\ pc = "manifest"
  /\ \E k \in Eligible :
       /\ AudioOf(k) \notin touched
       /\ startDisk[ImageOf(k)] > 0
       /\ VideoWasNewer(k)
       /\ RanFor(k, "composite")
       /\ disk[ImageOf(k)] = now
       /\ startDisk[ImageOf(k)] < now
       /\ disk[VideoOf(k)] = startDisk[VideoOf(k)]

\* the pages writePost has started or finished writing in this run
PagesOfRun == {w \in pending \cup pages : w.build = build}
OgWith(page, property) == SelectSeq(page.ogTags, LAMBDA m : m.property = property)

\* C7: the page of a post has exactly one og:type tag; it is 'video.other',
\* with og:video and og:audio tags of absolute URLs, exactly when the post
\* has the music tag, a music-source and a video on disk (generated or up
\* to date), and 'article' for every other post, a music post without video
\* included.
C7_OpenGraphType ==
  \A w \in PagesOfRun :
    \E k \in MdFiles :
      /\ IsSourceOf(k, w.page.slug)
      /\ LET src == files[k].musicSource
             rich == /\ Includes(files[k].tags, Music)
                     /\ src.kind = "path"
                     /\ disk[VideoPathOf(JoinOutput(src))] > 0
         IN /\ Len(OgWith(w.page, "og:type")) = 1
            /\ OgWith(w.page, "og:type")[1].text
                 = IF rich THEN <<"video.other">> ELSE <<"article">>
            /\ rich <=> Len(OgWith(w.page, "og:video")) = 1
            /\ rich <=> Len(OgWith(w.page, "og:audio")) = 1
            /\ \A m \in DOMAIN w.page.ogTags :
                 w.page.ogTags[m].property \in {"og:video", "og:audio"}
                   => w.page.ogTags[m].url.site = SITE_URL

\* C8: after the media step an entry has a videoSource only if its video
\* file exists and a waveformImage only if its waveform image was generated;
\* an entry that is not audio-eligible has neither, and posts.json has the
\* key videoSource (waveformImage) only in the records of entries whose
\* video (waveform image) exists.
C8_MediaFieldsOnlyAfterSuccess ==
  pc \in {"manifest", "index", "rss", "done"} =>
    /\ \A k \in DOMAIN entries :
         /\ entries[k].videoSource.kind = "path"
              => disk[JoinOutput(entries[k].videoSource)] > 0
         /\ entries[k].waveformImage.kind = "path"
              => disk[JoinOutput(entries[k].waveformImage)] > 0
         /\ ~AudioEligible(entries[k])
              => /\ entries[k].videoSource = Undefined
                 /\ entries[k].waveformImage = Undefined
    /\ ManifestWritten =>
         \A r \in DOMAIN manifest.data :
           /\ "videoSource" \in DOMAIN manifest.data[r]
                => /\ manifest.data[r].videoSource.kind = "path"
                   /\ disk[JoinOutput(manifest.data[r].videoSource)] > 0
           /\ "waveformImage" \in DOMAIN manifest.data[r]
                => /\ manifest.data[r].waveformImage.kind = "path"
                   /\ disk[JoinOutput(manifest.data[r].waveformImage)] > 0

\* C9: the description of a feed item is the post's description when it has
\* one, and otherwise the content with its tags stripped, cut to its first
\* 200 characters, followed by '...'.
C9_FeedDescription ==
  RssWritten =>
    \A a \in DOMAIN rss.data :
      \E k \in MdFiles :
        /\ IsSourceOf(k, rss.data[a].slug)
        /\ rss.data[a].description
             = IF files[k].description = <<>>
               THEN Substring(StripTags(ContentText(files[k].body)), PreviewLen)
                      \o Ellipsis
               ELSE files[k].description

\* C10: no outcome of an external command ends the run: a run fails only
\* over a post without a valid date; the media loop goes through every
\* entry, running both generators for each audio-eligible one; and a
\* finished run has written posts.json, index.html and rss.xml for all posts
\* and started the page write of every post.
C10_MediaFailureNeverAborts ==
  /\ pc = "failed" => ~AllDated
  /\ pc = "manifest" =>
       /\ i = Len(entries)
       /\ Len(entries) = Cardinality(MdFiles)
       /\ \A k \in Eligible : RanFor(k, "probe") /\ RanFor(k, "version")
  /\ pc = "done" =>
       /\ ManifestWritten /\ IndexWritten /\ RssWritten
       /\ Len(manifest.data) = Cardinality(MdFiles)
       /\ Len(index.data.items) = Cardinality(MdFiles)
       /\ Len(rss.data) = Min(FeedLimit, Cardinality(MdFiles))
       /\ \A k \in MdFiles : \E w \in PagesOfRun : IsSourceOf(k, w.page.slug)

\* a finished run over two audio-eligible posts in which the waveform
\* generation failed for both and no video exists
C10_Witness ==
  /\ pc = "done"
  /\ RssWritten
  /\ Len(rss.data) = 2
  /\ Cardinality(Eligible) = 2
  /\ \A k \in Eligible : entries[k].waveformImage = Null /\ disk[VideoOf(k)] = 0

\* ------------------------------------------------------ failure properties

\* C11: when the output directory, a template, the directory listing or the
\* read or parse of a post throws, the run is rejected with that error, no
\* entry exists, no external command has been run or is running, no derived
\* file has changed, and the run has written no posts.json, index.html or
\* rss.xml and started no page write.
C11_SetupFailureBeforeSideEffects ==
  error \in SetupErrors =>
    /\ pc = "failed"
    /\ entries = <<>>
    /\ invoked = {} /\ running = {}
    /\ disk = startDisk
    /\ ~ManifestWritten /\ ~IndexWritten /\ ~RssWritten
    /\ \A w \in pending \cup pages \cup unhandled : w.build # build

\* the read of a post threw, in the second run, in a directory that has an
\* audio-eligible post
C11_Witness ==
  /\ error = "read"
  /\ pc = "failed"
  /\ build = 2
  /\ \E k \in MdFiles : AudioEligible(ParseEntry(files[k]))

\* C12: in a run at most one external command is running, and it is the one
\* the run awaits; the video step of an entry starts only after its
\* waveform step has returned; every command run or running belongs to the
\* entry the loop is at or to an earlier one; all media work of the earlier
\* entries is complete and none has started for the later ones.
C12_MediaStrictlySequential ==
  /\ Cardinality(running) <= 1
  /\ running = IF pc \in ExecPcs THEN {[entry |-> i, cmd |-> pc]} ELSE {}
  /\ pc \in LoopPcs =>
       /\ pc \in {"version", "stat", "encode"} =>
            /\ RanFor(i, "probe")
            /\ \A r \in running : r.cmd \in {"version", "encode"}
       /\ \A r \in invoked \cup running : r.entry <= i
       /\ \A k \in Eligible :
            /\ k < i => RanFor(k, "version") /\ entries[k].videoSource.kind = "path"
            /\ k > i => entries[k].videoSource = Undefined

\* the ffprobe of the second audio-eligible entry is running, after the
\* waveform commands and the encoder have run for the first
C12_Witness ==
  /\ pc = "probe"
  /\ i = 2
  /\ Eligible = {1, 2}
  /\ running = {[entry |-> 2, cmd |-> "probe"]}
  /\ RanFor(1, "composite")
  /\ RanFor(1, "encode")

\* C13: the page of every entry has been written before index.html is
\* written, before rss.xml is written and before the run reports success.
C13_PagesWrittenBeforeHomePage ==
  (IndexWritten \/ RssWritten \/ pc = "done") =>
    \A k \in DOMAIN entries :
      \E w \in pages : w.build = build /\ w.page.slug = entries[k].slug

\* C14: a failed write of an output file fails the run: when the write of
\* posts.json, index.html or rss.xml throws, the run is rejected with it,
\* and a run of which a page write failed never reports success.
C14_WriteFailuresEscalate ==
  /\ error = "write" => pc \in {"failed", "exited"}
  /\ (\E w \in unhandled : w.build = build) => pc # "done"

\* ------------------------------------------------------- order properties

\* the position of a post in the directory listing
ListingIndex(slug) == CHOOSE k \in MdFiles : IsSourceOf(k, slug)
\* the slugs are in listing order wherever two neighbours have the same date
TiesInListingOrder(slugs, dates) ==
  \A a, b \in DOMAIN slugs :
    (a < b /\ dates[a] = dates[b]) => ListingIndex(slugs[a]) < ListingIndex(slugs[b])

\* C15: whatever the order in which the reads complete, the entries are in
\* the order of the directory listing after the parse, and after the sort
\* they are the one sequence the listing and the file contents determine,
\* in which entries of the same date keep their listing order; posts.json
\* and rss.xml are written in that order.
C15_EntryOrderDeterministic ==
  /\ pc \in {"loop", "manifest"} => entries = ParseAll(files)
  /\ pc \in {"index", "rss", "done"} =>
       /\ entries = SortEntries(ParseAll(files))
       /\ TiesInListingOrder([k \in DOMAIN entries |-> entries[k].slug],
                             [k \in DOMAIN entries |-> entries[k].date])
  /\ ManifestWritten =>
       /\ manifest.data = PostsMetadata(SortEntries(ParseAll(files)))
       /\ TiesInListingOrder([k \in DOMAIN manifest.data |-> manifest.data[k].slug],
                             [k \in DOMAIN manifest.data |-> manifest.data[k].date])
  /\ RssWritten => rss.data = RssItems(SortEntries(ParseAll(files)))

\* a finished run in which the read of the second post completed before the
\* read of the first, the two posts having the same date
C15_Witness ==
  /\ pc = "done"
  /\ RssWritten
  /\ Len(reads) >= 2
  /\ reads[2].rank < reads[1].rank
  /\ files[1].date = files[2].date
  /\ files[1].date.given
  /\ \E a, b \in DOMAIN entries :
       a < b /\ entries[a].slug = Basename(files[1].filename)
             /\ entries[b].slug = Basename(files[2].filename)

\* -------------------------------------------------- watch-mode properties

InProgress(r) == runs[r].pc \notin {"done", "failed"}

\* C16: runs are not serialised: an event starts a run whatever the runs in
\* progress (as long as the model's number of runs allows one), and a run
\* in progress can take its next step whatever the positions of the other
\* runs; every output file holds what the run that wrote it last computed
\* from the directory it read.
C16_WatchBuildsOverlap ==
  /\ Len(runs) < MaxBuilds => ENABLED WatchEvent
  /\ \A r \in DOMAIN runs : InProgress(r) => ENABLED RunStep(r)
  /\ manifest.build # 0 =>
       /\ runs[manifest.build].pc \in {"index", "rss", "done"}
       /\ manifest.data = PostsMetadata(runs[manifest.build].entries)
  /\ rss.build # 0 =>
       /\ runs[rss.build].pc = "done"
       /\ rss.data = RssItems(runs[rss.build].entries)

\* two runs were in progress together, over different directory contents;
\* both have finished, posts.json was last written by the later run and
\* rss.xml by the earlier one, and they disagree
C16_Witness ==
  /\ Len(runs) = 2
  /\ runs[1].pc = "done" /\ runs[2].pc = "done"
  /\ manifest.build = 2
  /\ rss.build = 1
  /\ runs[1].entries # runs[2].entries
  /\ Len(rss.data) # Len(manifest.data)

AwaitEndsByReturn ==
  pc \in ExecPcs =>
    \/ (pc' = pc /\ i' = i /\ build' = build /\ running' = running)
    \/ ([entry |-> i, cmd |-> pc] \notin running' /\ invoked' = Ran(pc))

\* C18: a run that awaits an external command has that command running,
\* has written no output and has started no page write; it leaves the await
\* only by the return of that command (there is no timeout), so a command
\* that never returns keeps the run there for ever; and when every command
\* and file operation returns, every run that was started ends, in success
\* or in failure.
C18_NoTimeoutAndTermination ==
  /\ [](pc \in ExecPcs =>
          /\ running = {[entry |-> i, cmd |-> pc]}
          /\ ~ManifestWritten /\ ~IndexWritten /\ ~RssWritten
          /\ PagesOfRun = {})
  /\ [][AwaitEndsByReturn]_vars
  /\ (pc = "setup" ~> pc \in {"done", "failed"})

\* the second run awaits the encoder for the audio-eligible entry, after
\* a post without date: nothing is written yet
C18_Witness ==
  /\ pc = "encode"
  /\ build = 2
  /\ Len(entries) = 2
  /\ Eligible = {1}
  /\ running = {[entry |-> 1, cmd |-> "encode"]}
  /\ manifest.build = 0 /\ index.build = 0 /\ rss.build = 0
  /\ pending = {} /\ pages = {}

\* C19: a run over a directory with a post whose date is missing or
\* unparseable writes no posts.json, index.html or rss.xml and starts no
\* page write, so no output of a run holds an invalid date; the run is
\* rejected when it builds the manifest, after the media loop has gone
\* through every entry and both generators have returned for every
\* audio-eligible one.
C19_InvalidDateFailsAtManifest ==
  /\ ~AllDated =>
       /\ pc \notin {"index", "rss", "done"}
       /\ ~ManifestWritten /\ ~IndexWritten /\ ~RssWritten
       /\ PagesOfRun = {}
  /\ error = "date" =>
       /\ pc = "failed"
       /\ ~AllDated
       /\ i = Len(entries)
       /\ Len(entries) = Cardinality(MdFiles)
       /\ \A k \in Eligible : entries[k].videoSource.kind = "path"
  /\ (pc = "manifest" /\ ~AllDated) =>
       \A k \in Eligible : RanFor(k, "probe") /\ RanFor(k, "version")

\* a run rejected over the date of one post after it had encoded the video
\* of another
C19_Witness ==
  /\ pc = "failed"
  /\ error = "date"
  /\ \E k \in Eligible : disk[VideoOf(k)] = now
  /\ manifest.build = 0 /\ index.build = 0 /\ rss.build = 0
  /\ pending = {} /\ pages = {}

\* ------------------------------------------------------- path properties

\* C20: for every audio-eligible entry the video path, the waveform-image
\* path and the two temporary paths derived from its audio path all differ
\* from the audio path, so no command writes to the audio file.
C20_DerivedPathsNeverTheAudioFile ==
  \A k \in Eligible :
    /\ VideoOf(k) # AudioOf(k)
    /\ ImageOf(k) # AudioOf(k)
    /\ TempAudioOf(ImageOf(k)) # AudioOf(k)
    /\ TempWaveformOf(ImageOf(k)) # AudioOf(k)

====
